---- MODULE Spec2Model ----
(***************************************************************************)
(* RECADV message builder of release2/recadv.py (class RecadvGenerator).   *)
(*                                                                         *)
(* A Python str is a sequence of one-character strings; the token "SUP2"   *)
(* stands for the single character U+00B2 (SUPERSCRIPT TWO), a character   *)
(* for which str.isdigit() is true although it is not an ASCII digit.      *)
(* A dynamically typed Python value is a record [t, v]: a str, an int or   *)
(* None.  A raised exception is the outcome "error".                       *)
(***************************************************************************)
EXTENDS Integers, Sequences, FiniteSets, TLC

\* ---------------------------------------------------------------- bounds
MaxItems == 2
MaxGen == 2
MaxDirect == 1
MaxClock == 1
NumSuffixes == 2
MaxElems == 3
MaxElemLen == 2
MaxExtra == 1

VARIABLES message, message_ref, clock, dir_exists, files, call, ret, gens, directs,
          peer, threads

vars == <<message, message_ref, clock, dir_exists, files, call, ret, gens, directs, peer, threads>>

\* ------------------------------------------------------- Python values
PyStr(s) == [t |-> "str", v |-> s]

PyInt(n) == [t |-> "int", v |-> n]

PyNone == [t |-> "none", v |-> <<>>]

DigitChars == <<"0", "1", "2", "3", "4", "5", "6", "7", "8", "9">>

AsciiDigits == {DigitChars[i] : i \in 1..10}

UnicodeDigits == {"SUP2"}

RECURSIVE NatToStr(_)
NatToStr(n) ==
    IF n < 10 THEN <<DigitChars[n + 1]>>
    ELSE NatToStr(n \div 10) \o <<DigitChars[(n % 10) + 1]>>

IntToStr(n) == IF n < 0 THEN <<"-">> \o NatToStr(0 - n) ELSE NatToStr(n)

str(e) ==
    CASE e.t = "str" -> e.v
      [] e.t = "int" -> IntToStr(e.v)
      [] e.t = "none" -> <<"N", "o", "n", "e">>

\* str.isdigit(): non-empty and every character has the Unicode digit property
isdigit(s) == Len(s) > 0 /\ \A i \in 1..Len(s) : s[i] \in AsciiDigits \cup UnicodeDigits

\* str.replace(old, new) for a one-character pattern
RECURSIVE replace(_, _, _)
replace(s, old, new) ==
    IF s = <<>> THEN <<>>
    ELSE (IF Head(s) = old THEN new ELSE <<Head(s)>>) \o replace(Tail(s), old, new)

\* sep.join(parts)
RECURSIVE join(_, _)
join(sep, parts) ==
    IF parts = <<>> THEN <<>>
    ELSE IF Len(parts) = 1 THEN parts[1]
    ELSE parts[1] \o sep \o join(sep, Tail(parts))

\* ------------------------------------------------ builder configuration
carrier == <<"C", "a", "r", "r", "i", "e", "r", "X">>

delivery_location == <<"D", "E", "H", "A", "M">>

buyer_ean == <<"5", "4", "1", "2", "3", "4", "5", "0", "0", "0", "1", "7", "6">>

supplier_ean == <<"4", "0", "1", "2", "3", "4", "5", "5", "0", "0", "0", "0", "4">>

reference_number == <<"1", "2", "3", "4", "5", "6", "7", "8", "9">>

document_number == <<"R", "E", "C", "A", "D", "V", "0", "0", "1">>

EanLength == 13

\* ----------------------------------------------------- private helpers
\* strftime("%Y%m%d%H%M") of the clock: a fixed day, the minute is the clock
strftime(now) == <<"2", "0", "2", "5", "0", "1", "0", "1", "0", "0", "0">> \o NatToStr(now)

\* uuid.uuid4().hex[:8]: eight hexadecimal characters, the last one varies
HexChars == <<"a", "b", "c", "d", "e", "f">>

uuid_hex8(k) == <<"0", "0", "0", "0", "0", "0", "0">> \o <<HexChars[k]>>

_generate_message_reference_timestamp_only(now, k) == strftime(now) \o uuid_hex8(1)

_generate_message_reference(now, k) == strftime(now) \o uuid_hex8(k)

_validate_ean(ean) == isdigit(ean) /\ Len(ean) = EanLength

escape_release_last(e) == replace(replace(replace(str(e), "'", <<"?", "'">>), ":", <<"?", ":">>), "?", <<"?", "?">>)

escape(e) == replace(replace(replace(str(e), "?", <<"?", "?">>), "'", <<"?", "'">>), ":", <<"?", ":">>)

kept(elements) == SelectSeq(elements, LAMBDA e : e # PyStr(<<>>) /\ e # PyNone)

escaped(elements) == [i \in 1..Len(kept(elements)) |-> escape(kept(elements)[i])]

_segment(tag, elements) == tag \o <<"+">> \o join(<<"+">>, escaped(elements)) \o <<"'">>

\* ------------------------------------------------------ segment adders
\* Each adder maps the message list to the message list after the call;
\* an adder that can raise returns [ok, msg], msg being the list it leaves.
add_una_segment(msg) == Append(msg, <<"U", "N", "A", ":", "+", ".", "?", " ", "'">>)

add_header(msg, ref, now) ==
    msg \o << _segment(<<"U", "N", "H">>, <<PyStr(ref), PyStr(<<"R", "E", "C", "A", "D", "V", ":", "D", ":", "9", "6", "A", ":", "U", "N", ":", "E", "A", "N", "0", "0", "8">>)>>),
              _segment(<<"B", "G", "M">>, <<PyStr(<<"3", "5", "1">>), PyStr(document_number), PyStr(<<"9">>)>>),
              _segment(<<"D", "T", "M">>, <<PyStr(<<"1", "3", "7", ":">> \o strftime(now) \o <<":", "2", "0", "3">>)>>),
              _segment(<<"R", "F", "F">>, <<PyStr(<<"D", "Q", ":">> \o reference_number)>>) >>

add_party(msg, qualifier, ean) ==
    IF ~_validate_ean(ean) THEN [ok |-> FALSE, msg |-> msg]
    ELSE [ok |-> TRUE,
          msg |-> Append(msg, _segment(<<"N", "A", "D">>, <<PyStr(qualifier), PyStr(ean \o <<":", ":", "9">>)>>))]

add_default_parties_swapped(msg) == add_party(add_party(msg, <<"S", "U">>, supplier_ean).msg, <<"B", "Y">>, buyer_ean).msg

add_default_parties(msg) == add_party(add_party(msg, <<"B", "Y">>, buyer_ean).msg, <<"S", "U">>, supplier_ean).msg

add_transport_details(msg) ==
    msg \o << _segment(<<"T", "D", "T">>, <<PyStr(<<"2", "0">>), PyStr(<<>>), PyStr(<<>>), PyStr(<<"3", "1">>),
                                   PyStr(<<>>), PyStr(carrier)>>),
              _segment(<<"L", "O", "C">>, <<PyStr(<<"9">>), PyStr(delivery_location)>>) >>

add_line_item_early(msg, line_no, ean, qty, cartons, weight) ==
    IF ~_validate_ean(ean) THEN [ok |-> FALSE, msg |-> msg]
    ELSE IF ~isdigit(str(qty))
         THEN [ok |-> FALSE,
               msg |-> Append(msg, _segment(<<"L", "I", "N">>, <<PyStr(line_no), PyStr(<<>>), PyStr(<<"E", "N", ":">> \o ean)>>))]
    ELSE [ok |-> TRUE,
          msg |-> msg \o << _segment(<<"L", "I", "N">>, <<PyStr(line_no), PyStr(<<>>), PyStr(<<"E", "N", ":">> \o ean)>>),
                            _segment(<<"Q", "T", "Y">>, <<PyStr(<<"1", "1", "3", ":">> \o str(qty))>>),
                            _segment(<<"P", "A", "C">>, <<PyStr(str(cartons)), PyStr(<<"C", "T">>)>>),
                            _segment(<<"M", "E", "A">>, <<PyStr(<<"A", "A", "E">>), PyStr(<<"G">>), PyStr(weight)>>) >>]

add_line_item(msg, line_no, ean, qty, cartons, weight) ==
    IF ~_validate_ean(ean) THEN [ok |-> FALSE, msg |-> msg]
    ELSE IF ~isdigit(str(qty)) THEN [ok |-> FALSE, msg |-> msg]
    ELSE [ok |-> TRUE,
          msg |-> msg \o << _segment(<<"L", "I", "N">>, <<PyStr(line_no), PyStr(<<>>), PyStr(<<"E", "N", ":">> \o ean)>>),
                            _segment(<<"Q", "T", "Y">>, <<PyStr(<<"1", "1", "3", ":">> \o str(qty))>>),
                            _segment(<<"P", "A", "C">>, <<PyStr(str(cartons)), PyStr(<<"C", "T">>)>>),
                            _segment(<<"M", "E", "A">>, <<PyStr(<<"A", "A", "E">>), PyStr(<<"G">>), PyStr(weight)>>) >>]

add_trailer_uncounted(msg, ref) ==
    Append(msg, _segment(<<"U", "N", "T">>, <<PyStr(str(PyInt(Len(msg)))), PyStr(ref)>>))

add_trailer(msg, ref) ==
    Append(msg, _segment(<<"U", "N", "T">>, <<PyStr(str(PyInt(Len(msg) + 1))), PyStr(ref)>>))

\* item.get(key, default)
item_get(item, key, default) == IF key \in DOMAIN item THEN item[key] ELSE default

\* the loop of generate over line_items: stops at the first item that raises
RECURSIVE add_line_items(_, _)
add_line_items(msg, line_items) ==
    IF line_items = <<>> THEN [ok |-> TRUE, msg |-> msg]
    ELSE LET item == Head(line_items)
             r == add_line_item(msg, item["line_no"], item["ean"], item["qty"],
                                item_get(item, "cartons", PyInt(1)),
                                item_get(item, "weight", <<"K", "G", "M", ":", "6", ".", "5">>))
         IN IF r.ok THEN add_line_items(r.msg, Tail(line_items)) ELSE r

\* ---------------------------------------------------------------- inputs
ItemE2E == [line_no |-> <<"1">>, ean |-> <<"4", "0", "0", "0", "8", "6", "2", "1", "4", "1", "4", "0", "4">>, qty |-> PyStr(<<"1", "2">>)]

ItemFull == [line_no |-> <<"2">>, ean |-> <<"4", "0", "0", "0", "8", "6", "2", "1", "4", "1", "4", "0", "5">>, qty |-> PyInt(5),
             cartons |-> PyInt(2), weight |-> <<"K", "G", "M", ":", "1", "2", ".", "0">>]

ItemBadEan == [line_no |-> <<"3">>, ean |-> <<"a", "b", "c", "d", "e", "1", "2", "3", "4", "5", "6", "7">>, qty |-> PyStr(<<"7">>)]

ItemNegQty == [line_no |-> <<"4">>, ean |-> <<"4", "0", "0", "0", "8", "6", "2", "1", "4", "1", "4", "0", "4">>, qty |-> PyInt(-5)]

ItemSupQty == [line_no |-> <<"5">>, ean |-> <<"4", "0", "0", "0", "8", "6", "2", "1", "4", "1", "4", "0", "4">>, qty |-> PyStr(<<"SUP2">>)]

Items == {ItemE2E, ItemFull, ItemBadEan, ItemNegQty, ItemSupQty}

\* line-item lists: the well-formed list of every length, and the shortest
\* and the longest of them with the first or the last item replaced
BaseList(n) == [i \in 1..n |-> IF i % 2 = 1 THEN ItemE2E ELSE ItemFull]

ItemLists ==
    {BaseList(n) : n \in 0..MaxItems}
    \cup UNION {{[BaseList(n) EXCEPT ![p] = it] : p \in {1, n}, it \in Items} : n \in {1, MaxItems}}

Suffixes == 1..NumSuffixes

PartyCalls == {<<<<"B", "Y">>, <<"5", "4", "1", "2", "3", "4", "5", "0", "0", "0", "1", "7", "6">>>>, <<<<"S", "U">>, <<"1", "2", "3">>>>}

DirectItems == {ItemFull, ItemBadEan, ItemNegQty}

\* ------------------------------------------------------------ generate
\* generate(line_items) up to its return statement, on a builder whose list
\* is msg and whose reference is ref, at clock now with random suffix k:
\* the builder's list and reference after the call, and whether it raised.
generate_uncleared(msg, ref, line_items, now, k) ==
    IF line_items = <<>> THEN [ok |-> FALSE, message |-> msg, message_ref |-> ref]
    ELSE LET new_ref == _generate_message_reference(now, k)
             r == add_line_items(add_transport_details(add_default_parties(
                      add_header(add_una_segment(msg), new_ref, now))), line_items)
         IN IF r.ok
            THEN [ok |-> TRUE, message |-> add_trailer(r.msg, new_ref), message_ref |-> new_ref]
            ELSE [ok |-> FALSE, message |-> r.msg, message_ref |-> new_ref]

\* the body of generate from self.message.clear() to add_trailer(): it starts
\* from the cleared list, so it depends on the arguments, the clock and the
\* random suffix only
build(line_items, now, k) ==
    LET new_ref == _generate_message_reference(now, k)
        r == add_line_items(add_transport_details(add_default_parties(
                 add_header(add_una_segment(<<>>), new_ref, now))), line_items)
    IN IF r.ok
       THEN [ok |-> TRUE, message |-> add_trailer(r.msg, new_ref), message_ref |-> new_ref]
       ELSE [ok |-> FALSE, message |-> r.msg, message_ref |-> new_ref]

\* build tabulated over the inputs of the model (evaluated once)
Built == [line_items \in ItemLists, now \in 0..MaxClock, k \in Suffixes |-> build(line_items, now, k)]

generate(msg, ref, line_items, now, k) ==
    IF line_items = <<>> THEN [ok |-> FALSE, message |-> msg, message_ref |-> ref]
    ELSE Built[line_items, now, k]

\* the return statement of generate: the list itself, or its lines joined
generate_return(msg, as_list) ==
    [kind |-> IF as_list THEN "list" ELSE "text",
     value |-> IF as_list THEN msg ELSE join(<<"\n">>, msg)]

\* what the caller finds in a value generate returned earlier, when the
\* builder's list has become msg: with as_list the value is self.message
\* itself, not a copy; the joined text is a string of its own
referent(r, msg) == IF r.kind = "list" THEN msg ELSE r.value

Raise == [kind |-> "error", value |-> <<>>]

NoValue == [kind |-> "none", value |-> <<>>]

\* a second instance of the class as its constructor leaves it: its own
\* empty list and empty reference, no call made yet
NewBuilder ==
    [message |-> <<>>, message_ref |-> <<>>, call |-> [op |-> "__init__"], ret |-> NoValue]

\* ------------------------------------------------------------------ Init
Init ==
    /\ message = <<>>
    /\ message_ref = <<>>
    /\ clock = 0
    /\ dir_exists = TRUE
    /\ files = {}
    /\ call = [op |-> "__init__"]
    /\ ret = NoValue
    /\ gens = 0
    /\ directs = 0
    /\ peer = NewBuilder
    /\ threads = <<>>

\* --------------------------------------------------------------- actions
Generate ==
    /\ gens < MaxGen
    /\ \E line_items \in ItemLists, k \in Suffixes :
         \E g \in {generate(message, message_ref, line_items, clock, k)} :
           \E as_list \in BOOLEAN :
             /\ message' = g.message
             /\ message_ref' = g.message_ref
             /\ ret' = IF g.ok THEN generate_return(g.message, as_list) ELSE Raise
             /\ call' = [op |-> "generate", line_items |-> line_items, as_list |-> as_list, k |-> k]
    /\ gens' = gens + 1
    /\ UNCHANGED <<clock, dir_exists, files, directs, peer, threads>>

AddParty ==
    /\ directs < MaxDirect
    /\ \E pc \in PartyCalls :
         \E r \in {add_party(message, pc[1], pc[2])} :
            /\ message' = r.msg
            /\ ret' = IF r.ok THEN NoValue ELSE Raise
            /\ call' = [op |-> "add_party", qualifier |-> pc[1], ean |-> pc[2]]
    /\ directs' = directs + 1
    /\ UNCHANGED <<message_ref, clock, dir_exists, files, gens, peer, threads>>

AddLineItem ==
    /\ directs < MaxDirect
    /\ \E item \in DirectItems :
         \E r \in {add_line_item(message, item["line_no"], item["ean"], item["qty"],
                                 item_get(item, "cartons", PyInt(1)),
                                 item_get(item, "weight", <<"K", "G", "M", ":", "6", ".", "5">>))} :
            /\ message' = r.msg
            /\ ret' = IF r.ok THEN NoValue ELSE Raise
            /\ call' = [op |-> "add_line_item", item |-> item]
    /\ directs' = directs + 1
    /\ UNCHANGED <<message_ref, clock, dir_exists, files, gens, peer, threads>>

AddHeader ==
    /\ directs < MaxDirect
    /\ message' = add_header(message, message_ref, clock)
    /\ ret' = NoValue
    /\ call' = [op |-> "add_header"]
    /\ directs' = directs + 1
    /\ UNCHANGED <<message_ref, clock, dir_exists, files, gens, peer, threads>>

AddTransportDetails ==
    /\ directs < MaxDirect
    /\ message' = add_transport_details(message)
    /\ ret' = NoValue
    /\ call' = [op |-> "add_transport_details"]
    /\ directs' = directs + 1
    /\ UNCHANGED <<message_ref, clock, dir_exists, files, gens, peer, threads>>

AddTrailer ==
    /\ directs < MaxDirect
    /\ message' = add_trailer(message, message_ref)
    /\ ret' = NoValue
    /\ call' = [op |-> "add_trailer"]
    /\ directs' = directs + 1
    /\ UNCHANGED <<message_ref, clock, dir_exists, files, gens, peer, threads>>

Tick ==
    /\ clock < MaxClock
    /\ clock' = clock + 1
    /\ UNCHANGED <<message, message_ref, dir_exists, files, call, ret, gens, directs, peer, threads>>

Next ==
    \/ Generate
    \/ AddParty
    \/ AddLineItem
    \/ AddHeader
    \/ AddTransportDetails
    \/ AddTrailer

Spec == Init /\ [][Next]_vars

\* ------------------------------------------------------ generate_and_save
\* The output directory holds files, each a record [name, data].
\* tempfile.NamedTemporaryFile picks a name no file of the directory has.
TmpName(fs) ==
    LET free == {n \in 0..Cardinality(fs) : \A f \in fs : f.name # <<"t", "m", "p">> \o NatToStr(n)}
    IN <<"t", "m", "p">> \o NatToStr(CHOOSE n \in free : \A m \in free : n <= m)

\* filename or f"RECADV_{self.message_ref}.edi"
default_filename(ref) == <<"R", "E", "C", "A", "D", "V", "_">> \o ref \o <<".", "e", "d", "i">>

Filenames == {PyNone, PyStr(<<"o", "u", "t", ".", "e", "d", "i">>)}

\* what a write that fails part-way has put into the file
PartlyWritten(content) == SubSeq(content, 1, Len(content) \div 2)

\* outcomes of the file operations of one call, chosen by the environment
IOOutcomes == {"ok", "create_fails", "write_fails", "close_fails", "move_fails"}

SaveItemLists == {BaseList(1), BaseList(MaxItems), <<ItemBadEan>>}

\* shutil.move(tmp_file, filepath): the temporary file replaces the target
move(fs, src, dst) ==
    {f \in fs : f.name # src /\ f.name # dst}
    \cup {[name |-> dst, data |-> f.data] : f \in {h \in fs : h.name = src}}

\* the directory after the try/finally of generate_and_save
save(fs, dir_ok, content, filename, io) ==
    LET tmp == TmpName(fs)
        written == fs \cup {[name |-> tmp, data |-> content]}
    IN IF ~dir_ok \/ io = "create_fails" THEN [ok |-> FALSE, files |-> fs]
       ELSE IF io = "write_fails"
            THEN [ok |-> FALSE, files |-> fs \cup {[name |-> tmp, data |-> PartlyWritten(content)]}]
       ELSE IF io = "close_fails"
            THEN [ok |-> FALSE, files |-> {f \in written : f.name # tmp}]
       ELSE IF io = "move_fails"
            THEN [ok |-> FALSE, files |-> {f \in written : f.name # tmp}]
       ELSE [ok |-> TRUE, files |-> move(written, tmp, filename)]

GenerateAndSave ==
    /\ gens < MaxGen
    /\ \E line_items \in SaveItemLists, k \in Suffixes :
         \E g \in {generate(message, message_ref, line_items, clock, k)} :
           \E fname \in Filenames, io \in IOOutcomes :
             LET filename == IF fname = PyNone THEN default_filename(g.message_ref) ELSE fname.v
             IN /\ message' = g.message
                /\ message_ref' = g.message_ref
                /\ call' = [op |-> "generate_and_save", line_items |-> line_items,
                            filename |-> filename, io |-> io]
                /\ IF ~g.ok
                   THEN /\ ret' = Raise
                        /\ files' = files
                   ELSE \E w \in {save(files, dir_exists, join(<<"\n">>, g.message), filename, io)} :
                          /\ files' = w.files
                          /\ ret' = IF w.ok
                                    THEN [kind |-> "path", value |-> <<"o", "u", "t", "p", "u", "t", "/">> \o filename]
                                    ELSE Raise
    /\ gens' = gens + 1
    /\ UNCHANGED <<clock, dir_exists, directs, peer, threads>>

\* the output directory, made by os.makedirs in the constructor, is removed
\* with everything in it by another process; generate_and_save has no
\* statement that makes it again
RemoveOutputDir ==
    /\ dir_exists
    /\ dir_exists' = FALSE
    /\ files' = {}
    /\ UNCHANGED <<message, message_ref, clock, call, ret, gens, directs, peer, threads>>

NextSave ==
    \/ GenerateAndSave
    \/ Tick
    \/ RemoveOutputDir

SpecSave == Init /\ [][NextSave]_vars

\* ------------------------------------------- _segment as a pure function
SegmentChars == {"?", "+", ":", "'", "a"}

ElementStrings == UNION {[1..n -> SegmentChars] : n \in 0..MaxElemLen}

PlainElements == {PyStr(<<>>), PyNone, PyStr(<<"a">>)}

\* element lists: lists of plain elements, and lists holding any one string
\* at one position
ElementLists ==
    UNION {[1..n -> PlainElements] : n \in 0..MaxElems}
    \cup UNION {{[[i \in 1..n |-> PyStr(<<"a">>)] EXCEPT ![p] = PyStr(e)] :
                    p \in 1..n, e \in ElementStrings} : n \in 1..MaxElems}

Tags == {<<"L", "I", "N">>, <<"T", "D", "T">>}

InitSegment ==
    /\ message = <<>>
    /\ message_ref = <<>>
    /\ clock = 0
    /\ dir_exists = TRUE
    /\ files = {}
    /\ \E tag \in Tags, elements \in ElementLists :
         call = [op |-> "_segment", tag |-> tag, elements |-> elements]
    /\ ret = NoValue
    /\ gens = 0
    /\ directs = 0
    /\ peer = NewBuilder
    /\ threads = <<>>

Segment ==
    /\ call.op = "_segment"
    /\ ret = NoValue
    /\ ret' = [kind |-> "str", value |-> _segment(call.tag, call.elements)]
    /\ UNCHANGED <<message, message_ref, clock, dir_exists, files, call, gens, directs, peer, threads>>

SpecSegment == InitSegment /\ [][Segment]_vars

\* --------------------------------------- _validate_ean as a pure function
EanChars == {"0", "9", "a", "-", "+", " ", "SUP2"}

EanBase == <<"4", "0", "0", "0", "8", "6", "2", "1", "4", "1", "4", "0", "4">>

EanInputs ==
    {[EanBase EXCEPT ![p] = c] : p \in 1..EanLength, c \in EanChars}
    \cup {SubSeq(EanBase, 1, n) : n \in 0..EanLength}
    \cup UNION {{EanBase \o x : x \in [1..n -> EanChars]} : n \in 1..MaxExtra}
    \cup {[p \in 1..EanLength |-> "SUP2"]}

InitEan ==
    /\ message = <<>>
    /\ message_ref = <<>>
    /\ clock = 0
    /\ dir_exists = TRUE
    /\ files = {}
    /\ \E ean \in EanInputs : call = [op |-> "_validate_ean", ean |-> ean]
    /\ ret = NoValue
    /\ gens = 0
    /\ directs = 0
    /\ peer = NewBuilder
    /\ threads = <<>>

ValidateEan ==
    /\ call.op = "_validate_ean"
    /\ ret = NoValue
    /\ ret' = IF _validate_ean(call.ean) THEN [kind |-> "str", value |-> call.ean] ELSE Raise
    /\ UNCHANGED <<message, message_ref, clock, dir_exists, files, call, gens, directs, peer, threads>>

SpecEan == InitEan /\ [][ValidateEan]_vars

\* ------------------------------------------------------- two instances
\* Two builders with the same configuration: the first is the builder of the
\* variables message, message_ref, call and ret, the second is peer.  Each
\* has its own list and reference (lines 22-23) and takes its token from the
\* clock and its own random suffix.
GenerateFirst ==
    /\ gens < MaxGen
    /\ \E line_items \in SaveItemLists, k \in Suffixes :
         \E g \in {generate(message, message_ref, line_items, clock, k)} :
           \E as_list \in BOOLEAN :
             /\ message' = g.message
             /\ message_ref' = g.message_ref
             /\ ret' = IF g.ok THEN generate_return(g.message, as_list) ELSE Raise
             /\ call' = [op |-> "generate", line_items |-> line_items, as_list |-> as_list, k |-> k]
    /\ gens' = gens + 1
    /\ UNCHANGED <<clock, dir_exists, files, directs, peer, threads>>

GeneratePeer ==
    /\ peer.call.op = "__init__"
    /\ \E line_items \in SaveItemLists, k \in Suffixes :
         \E g \in {generate(peer.message, peer.message_ref, line_items, clock, k)} :
           \E as_list \in BOOLEAN :
             peer' = [message |-> g.message,
                      message_ref |-> g.message_ref,
                      call |-> [op |-> "generate", line_items |-> line_items,
                                as_list |-> as_list, k |-> k],
                      ret |-> IF g.ok THEN generate_return(g.message, as_list) ELSE Raise]
    /\ UNCHANGED <<message, message_ref, clock, dir_exists, files, call, ret, gens, directs, threads>>

NextPair ==
    \/ GenerateFirst
    \/ GeneratePeer
    \/ Tick

SpecPair == Init /\ [][NextPair]_vars

\* ------------------------------------------------- concurrent generate
\* Two threads, each inside one call of generate(line_items), on one builder
\* or on two.  A step is one statement of generate (lines 99-123); the
\* statements read and write the builder's list and reference at the moment
\* they run.  A switch between two appends of one add_* method is not taken,
\* so every run here is a run of the program.
Threads == 1..2

ThreadItemLists == {<<ItemE2E>>, <<ItemFull>>}

\* the list object self.message of builder b refers to: the constructor
\* gives every instance a list of its own
list_of_shared(b) == 1

list_of(b) == b

Msg(b) == IF list_of(b) = 1 THEN message ELSE peer.message

Ref(b) == IF b = 1 THEN message_ref ELSE peer.message_ref

\* the statement of thread t at pc leaves builder's list msg and reference ref
Update(t, pc, msg, ref) ==
    LET b == threads[t].on
    IN /\ message' = IF list_of(b) = 1 THEN msg ELSE message
       /\ message_ref' = IF b = 1 THEN ref ELSE message_ref
       /\ peer' = [peer EXCEPT !.message = IF list_of(b) = 2 THEN msg ELSE @,
                               !.message_ref = IF b = 2 THEN ref ELSE @]
       /\ threads' = [threads EXCEPT ![t].pc = pc]
       /\ UNCHANGED <<clock, dir_exists, files, call, ret, gens, directs>>

InitThreads ==
    /\ message = <<>>
    /\ message_ref = <<>>
    /\ clock = 0
    /\ dir_exists = TRUE
    /\ files = {}
    /\ call = [op |-> "__init__"]
    /\ ret = NoValue
    /\ gens = 0
    /\ directs = 0
    /\ peer = NewBuilder
    /\ \E b \in 1..2, items \in ThreadItemLists :
         threads = [t \in Threads |->
                      [on |-> IF t = 1 THEN 1 ELSE b,
                       line_items |-> IF t = 1 THEN <<ItemE2E>> ELSE items,
                       k |-> t, i |-> 1, pc |-> "clear", result |-> NoValue]]

\* self.message.clear()
StepClear(t) ==
    /\ threads[t].pc = "clear"
    /\ Update(t, "message_ref", <<>>, Ref(threads[t].on))

\* self.message_ref = self._generate_message_reference()
StepMessageRef(t) ==
    /\ threads[t].pc = "message_ref"
    /\ Update(t, "add_una_segment", Msg(threads[t].on),
              _generate_message_reference(clock, threads[t].k))

StepAddUnaSegment(t) ==
    /\ threads[t].pc = "add_una_segment"
    /\ Update(t, "add_header", add_una_segment(Msg(threads[t].on)), Ref(threads[t].on))

StepAddHeader(t) ==
    /\ threads[t].pc = "add_header"
    /\ Update(t, "add_default_parties",
              add_header(Msg(threads[t].on), Ref(threads[t].on), clock), Ref(threads[t].on))

StepAddDefaultParties(t) ==
    /\ threads[t].pc = "add_default_parties"
    /\ Update(t, "add_transport_details",
              add_default_parties(Msg(threads[t].on)), Ref(threads[t].on))

StepAddTransportDetails(t) ==
    /\ threads[t].pc = "add_transport_details"
    /\ Update(t, "add_line_item", add_transport_details(Msg(threads[t].on)), Ref(threads[t].on))

\* one pass of the loop over line_items, or leaving the loop
StepAddLineItem(t) ==
    /\ threads[t].pc = "add_line_item"
    /\ LET b == threads[t].on
           i == threads[t].i
           item == threads[t].line_items[i]
       IN /\ i <= Len(threads[t].line_items)
          /\ \E r \in {add_line_item(Msg(b), item["line_no"], item["ean"], item["qty"],
                                     item_get(item, "cartons", PyInt(1)),
                                     item_get(item, "weight", <<"K", "G", "M", ":", "6", ".", "5">>))} :
               /\ message' = IF list_of(b) = 1 THEN r.msg ELSE message
               /\ peer' = [peer EXCEPT !.message = IF list_of(b) = 2 THEN r.msg ELSE @]
               /\ threads' = [threads EXCEPT
                                ![t].i = i + 1,
                                ![t].pc = IF ~r.ok THEN "done"
                                          ELSE IF i = Len(threads[t].line_items) THEN "add_trailer"
                                          ELSE "add_line_item",
                                ![t].result = IF r.ok THEN NoValue ELSE Raise]
    /\ UNCHANGED <<message_ref, clock, dir_exists, files, call, ret, gens, directs>>

StepAddTrailer(t) ==
    /\ threads[t].pc = "add_trailer"
    /\ Update(t, "return", add_trailer(Msg(threads[t].on), Ref(threads[t].on)), Ref(threads[t].on))

\* return "\n".join(self.message)
StepReturn(t) ==
    /\ threads[t].pc = "return"
    /\ threads' = [threads EXCEPT ![t].pc = "done",
                                  ![t].result = generate_return(Msg(threads[t].on), FALSE)]
    /\ UNCHANGED <<message, message_ref, clock, dir_exists, files, call, ret, gens, directs, peer>>

NextThreads ==
    \E t \in Threads :
        \/ StepClear(t)
        \/ StepMessageRef(t)
        \/ StepAddUnaSegment(t)
        \/ StepAddHeader(t)
        \/ StepAddDefaultParties(t)
        \/ StepAddTransportDetails(t)
        \/ StepAddLineItem(t)
        \/ StepAddTrailer(t)
        \/ StepReturn(t)

SpecThreads == InitThreads /\ [][NextThreads]_vars

\* ------------------------------------ refactor_output4, refactor_output3
\* The classes of rf4.py and readdoc_3.py: the reference is taken once, in
\* the constructor; _segment joins its elements as they are; generate
\* appends to self.message and returns its lines joined.
uuid_int4(k) == <<"1", "0", "0">> \o <<DigitChars[k + 1]>>

rf_generate_message_reference(now, k) == strftime(now) \o uuid_int4(k)

rf_segment(tag, elements) == tag \o <<"+">> \o join(<<"+">>, elements) \o <<"'">>

rf_add_una_segment(msg) == Append(msg, <<"U", "N", "A", ":", "+", ".", "?", " ", "'">>)

rf_add_header(msg, ref, now) ==
    msg \o <<rf_segment(<<"U", "N", "H">>, <<ref, <<"R", "E", "C", "A", "D", "V", ":", "D", ":", "9", "6", "A", ":", "U", "N", ":", "E", "A", "N", "0", "0", "8">>>>),
             rf_segment(<<"B", "G", "M">>, <<<<"3", "5", "1">>, <<"R", "E", "C", "A", "D", "V", "0", "0", "1">>, <<"9">>>>),
             rf_segment(<<"D", "T", "M">>, <<<<"1", "3", "7", ":", "2", "0", "2", "5", "0", "1", "0", "1", ":", "0", "0", "0">> \o NatToStr(now) \o <<":", "2", "0", "3">>>>),
             rf_segment(<<"R", "F", "F">>, <<<<"D", "Q", ":", "1", "2", "3", "4", "5", "6", "7", "8", "9">>>>)>>

rf_add_parties(msg) ==
    msg \o <<rf_segment(<<"N", "A", "D">>, <<<<"B", "Y">>, <<"5", "4", "1", "2", "3", "4", "5", "0", "0", "0", "1", "7", "6", ":", ":", "9">>>>),
             rf_segment(<<"N", "A", "D">>, <<<<"S", "U">>, <<"4", "0", "1", "2", "3", "4", "5", "5", "0", "0", "0", "0", "4", ":", ":", "9">>>>)>>

rf4_add_transport_details(msg) ==
    msg \o <<rf_segment(<<"T", "D", "T">>, <<<<"2", "0">>, <<>>, <<>>, <<"3", "1">>, <<>>, <<"C", "a", "r", "r", "i", "e", "r", "X">>>>),
             rf_segment(<<"L", "O", "C">>, <<<<"9">>, <<"D", "E", "H", "A", "M">>>>)>>

RECURSIVE rf4_add_line_items(_, _)
rf4_add_line_items(msg, line_items) ==
    IF line_items = <<>> THEN msg
    ELSE LET item == Head(line_items)
         IN rf4_add_line_items(
                msg \o <<rf_segment(<<"L", "I", "N">>, <<item["line_no"], <<>>, <<"E", "N", ":">> \o item["ean"]>>),
                         rf_segment(<<"Q", "T", "Y">>, <<<<"1", "1", "3", ":">> \o str(item["qty"])>>),
                         rf_segment(<<"P", "A", "C">>, <<<<"1">>, <<"C", "T">>>>),
                         rf_segment(<<"M", "E", "A">>, <<<<"A", "A", "E">>, <<"G">>, <<"K", "G", "M", ":", "6", ".", "5">>>>)>>,
                Tail(line_items))

RECURSIVE rf3_add_line_items(_, _)
rf3_add_line_items(msg, line_items) ==
    IF line_items = <<>> THEN msg
    ELSE LET item == Head(line_items)
         IN rf3_add_line_items(
                msg \o <<rf_segment(<<"L", "I", "N">>, <<item["line_no"], <<>>, <<"E", "N", ":">> \o item["ean"]>>),
                         rf_segment(<<"Q", "T", "Y">>, <<<<"1", "1", "3", ":">> \o str(item["qty"])>>),
                         rf_segment(<<"P", "A", "C">>, <<<<"1">>>>)>>,
                Tail(line_items))

rf_add_trailer(msg, ref) ==
    Append(msg, rf_segment(<<"U", "N", "T">>, <<NatToStr(Len(msg) + 1), ref>>))

\* generate of rf4.py and of readdoc_3.py: the builder's list after the call
rf4_generate(msg, ref, line_items, now) ==
    rf_add_trailer(rf4_add_line_items(rf4_add_transport_details(rf_add_parties(
        rf_add_header(rf_add_una_segment(msg), ref, now))), line_items), ref)

rf3_generate(msg, ref, line_items, now) ==
    rf_add_trailer(rf3_add_line_items(rf_add_parties(
        rf_add_header(rf_add_una_segment(msg), ref, now)), line_items), ref)

RfVariants == {"rf4", "readdoc_3"}

RfItemLists == {<<>>} \cup SaveItemLists

InitRf ==
    /\ message = <<>>
    /\ \E k \in Suffixes : message_ref = rf_generate_message_reference(0, k)
    /\ clock = 0
    /\ dir_exists = TRUE
    /\ files = {}
    /\ \E v \in RfVariants : call = [op |-> "__init__", variant |-> v]
    /\ ret = NoValue
    /\ gens = 0
    /\ directs = 0
    /\ peer = NewBuilder
    /\ threads = <<>>

RfGenerate ==
    /\ gens < MaxGen
    /\ \E line_items \in RfItemLists :
         \E m \in {IF call.variant = "rf4"
                   THEN rf4_generate(message, message_ref, line_items, clock)
                   ELSE rf3_generate(message, message_ref, line_items, clock)} :
           /\ message' = m
           /\ ret' = [kind |-> "text", value |-> join(<<"\n">>, m)]
           /\ call' = [op |-> "generate", variant |-> call.variant, line_items |-> line_items]
    /\ gens' = gens + 1
    /\ UNCHANGED <<message_ref, clock, dir_exists, files, directs, peer, threads>>

NextRf ==
    \/ RfGenerate
    \/ Tick

SpecRf == InitRf /\ [][NextRf]_vars

\* ------------------------------------------------ print/recadv_term_print
\* The class of recadv_term_print.py keeps no message: generate builds a
\* local list.  edifact_escape replaces each ' + : by a question mark.
edifact_escape(value) == [i \in 1..Len(value) |-> IF value[i] \in {"'", "+", ":"} THEN "?" ELSE value[i]]

print_segment(tag, elements) ==
    tag \o <<"+">> \o join(<<"+">>, [i \in 1..Len(elements) |-> edifact_escape(elements[i])]) \o <<"'">>

print_add_una_segment(msg) == Append(msg, <<"U", "N", "A", ":", "+", ".", "?", " ", "'">>)

print_add_header(msg, ref, now) ==
    msg \o <<print_segment(<<"U", "N", "H">>, <<ref, <<"R", "E", "C", "A", "D", "V", ":", "D", ":", "9", "6", "A", ":", "U", "N", ":", "E", "A", "N", "0", "0", "8">>>>),
             print_segment(<<"B", "G", "M">>, <<<<"3", "5", "1">>, <<"R", "E", "C", "A", "D", "V", "0", "0", "1">>, <<"9">>>>),
             print_segment(<<"D", "T", "M">>, <<<<"1", "3", "7", ":", "2", "0", "2", "5", "0", "1", "0", "1", ":", "0", "0", "0">> \o NatToStr(now) \o <<":", "2", "0", "3">>>>),
             print_segment(<<"R", "F", "F">>, <<<<"D", "Q", ":", "1", "2", "3", "4", "5", "6", "7", "8", "9">>>>)>>

print_add_parties(msg) ==
    msg \o <<print_segment(<<"N", "A", "D">>, <<<<"B", "Y">>, <<"5", "4", "1", "2", "3", "4", "5", "0", "0", "0", "1", "7", "6", ":", ":", "9">>>>),
             print_segment(<<"N", "A", "D">>, <<<<"S", "U">>, <<"4", "0", "1", "2", "3", "4", "5", "5", "0", "0", "0", "0", "4", ":", ":", "9">>>>)>>

print_add_transport_details(msg) ==
    msg \o <<print_segment(<<"T", "D", "T">>, <<<<"2", "0">>, <<>>, <<>>, <<"3", "1">>, <<>>, <<"C", "a", "r", "r", "i", "e", "r", "X">>>>),
             print_segment(<<"L", "O", "C">>, <<<<"9">>, <<"D", "E", "H", "A", "M">>>>)>>

RECURSIVE print_add_line_items(_, _)
print_add_line_items(msg, line_items) ==
    IF line_items = <<>> THEN msg
    ELSE LET item == Head(line_items)
         IN print_add_line_items(
                msg \o <<print_segment(<<"L", "I", "N">>, <<item_get(item, "line_no", <<>>), <<>>,
                                                  <<"E", "N", ":">> \o item_get(item, "ean", <<>>)>>),
                         print_segment(<<"Q", "T", "Y">>, <<<<"1", "1", "3", ":">> \o str(item_get(item, "qty", PyStr(<<>>)))>>),
                         print_segment(<<"P", "A", "C">>, <<<<"1">>, <<"C", "T">>>>),
                         print_segment(<<"M", "E", "A">>, <<<<"A", "A", "E">>, <<"G">>, <<"K", "G", "M", ":", "6", ".", "5">>>>)>>,
                Tail(line_items))

print_add_trailer(msg, segment_count, ref) ==
    Append(msg, print_segment(<<"U", "N", "T">>, <<IntToStr(segment_count), ref>>))

\* generate: the local list at the return statement
print_generate(line_items, now, k) ==
    LET ref == rf_generate_message_reference(now, k)
        body == print_add_line_items(print_add_transport_details(print_add_parties(
                    print_add_header(print_add_una_segment(<<>>), ref, now))), line_items)
        segment_count == Len(body)
    IN print_add_trailer(body, segment_count, ref)

PrintGenerate ==
    /\ gens < MaxGen
    /\ \E line_items \in ItemLists, k \in Suffixes :
         /\ ret' = [kind |-> "text", value |-> join(<<"\n">>, print_generate(line_items, clock, k))]
         /\ call' = [op |-> "generate", line_items |-> line_items]
    /\ gens' = gens + 1
    /\ UNCHANGED <<message, message_ref, clock, dir_exists, files, directs, peer, threads>>

NextPrint ==
    \/ PrintGenerate
    \/ Tick

SpecPrint == Init /\ [][NextPrint]_vars

\* ================================================================ claims
\* Reading a rendered message back: the pieces of s between occurrences of
\* the one-character separator sep, in order.
SepPositions(s, sep) == {i \in 1..Len(s) : s[i] = sep}

Split(s, sep) ==
    LET P == SepPositions(s, sep)
        at(k) == IF k = 0 THEN 0
                 ELSE IF k > Cardinality(P) THEN Len(s) + 1
                 ELSE CHOOSE i \in P : Cardinality({j \in P : j < i}) = k - 1
    IN [k \in 1..(Cardinality(P) + 1) |-> SubSeq(s, at(k - 1) + 1, at(k) - 1)]

\* the segments of the value a successful generate returned
Succeeded == ret.kind \in {"list", "text"}

RenderedSegments == IF ret.kind = "list" THEN ret.value ELSE Split(ret.value, "\n")

Tag(seg) == SubSeq(seg, 1, 3)

DigitValue(c) == CHOOSE d \in 0..9 : DigitChars[d + 1] = c

RECURSIVE StrToNat(_)
StrToNat(s) ==
    IF Len(s) = 1 THEN DigitValue(s[1])
    ELSE 10 * StrToNat(SubSeq(s, 1, Len(s) - 1)) + DigitValue(s[Len(s)])

IsAsciiNumber(s) == Len(s) > 0 /\ \A i \in 1..Len(s) : s[i] \in AsciiDigits

\* the count field of a UNT segment, -1 when it is not a number
TrailerCount(seg) ==
    LET fields == Split(SubSeq(seg, 1, Len(seg) - 1), "+")
    IN IF Len(fields) >= 2 /\ IsAsciiNumber(fields[2]) THEN StrToNat(fields[2]) ELSE 0 - 1

TagCount(segs, tags) == Cardinality({i \in 1..Len(segs) : Tag(segs[i]) \in tags})

\* C1: every message generate returns ends with a UNT segment whose count
\* is the number of segments of that message, UNA and UNT included, for
\* every call of a sequence of calls on one builder.
C1_TrailerCountExact ==
    (call.op = "generate" /\ Succeeded) =>
        LET segs == RenderedSegments
        IN /\ Len(segs) > 0
           /\ Tag(segs[Len(segs)]) = <<"U", "N", "T">>
           /\ TrailerCount(segs[Len(segs)]) = Len(segs)

C1_Witness ==
    /\ call.op = "generate" /\ Succeeded
    /\ gens = MaxGen
    /\ Len(call.line_items) = MaxItems
    /\ TrailerCount(RenderedSegments[Len(RenderedSegments)]) = 10 + 4 * MaxItems

\* C2: a generate call that raises because of a line item has appended no
\* segment: the builder's list is what it was before the call, or empty.
C2_NoPartialMessage ==
    [][(gens' # gens /\ call'.op = "generate" /\ call'.line_items # <<>> /\ ret'.kind = "error")
          => message' \in {message, <<>>}]_vars

\* C3: when generate_and_save fails in a file operation, the directory holds
\* no file it did not hold before the call: no temporary file of the call
\* and no partly written target.
C3_FailedSaveLeavesNothing ==
    [][(gens' # gens /\ call'.op = "generate_and_save" /\ ret'.kind = "error")
          => files' \subseteq files]_vars

\* the number of release characters right before position j of t
ReleaseRun(t, j) == Cardinality({k \in 1..(j - 1) : \A m \in k..(j - 1) : t[m] = "?"})

Unescaped(t, j) == ReleaseRun(t, j) % 2 = 0

NoBareDelimiter(t) == \A j \in 1..Len(t) : t[j] \in {"+", ":", "'"} => ~Unescaped(t, j)

\* C4: a rendered segment ends with an unescaped terminator, and in the
\* escaped text of each element every + : ' is escaped by a release character.
C4_SegmentEscaped ==
    (call.op = "_segment" /\ ret.kind = "str") =>
        /\ ret.value[Len(ret.value)] = "'"
        /\ Unescaped(ret.value, Len(ret.value))
        /\ \A i \in 1..Len(escaped(call.elements)) : NoBareDelimiter(escaped(call.elements)[i])

\* the rendering that keeps every position: an empty or None element is an
\* empty field
FieldText(e) == IF e = PyNone THEN <<>> ELSE escape(e)

AllFields(elements) == [i \in 1..Len(elements) |-> FieldText(elements[i])]

\* C5: a rendered segment has one field per element, in call order, an
\* empty or None element being an empty field between two + signs.
C5_PositionsPreserved ==
    (call.op = "_segment" /\ ret.kind = "str") =>
        ret.value = call.tag \o <<"+">> \o join(<<"+">>, AllFields(call.elements)) \o <<"'">>

\* C6: the message generated for the single item of the end-to-end example
\* holds, in order, UNA, BGM+351+RECADV001+9', the NAD segments of BY and SU
\* with GLN::9, TDT, LOC, LIN+1++EN:4000862141404' directly followed by
\* QTY+113:12', and a trailer counting the segments.
C6_EndToEnd ==
    (call.op = "generate" /\ call.line_items = <<ItemE2E>> /\ Succeeded) =>
        LET segs == RenderedSegments
            n == Len(segs)
        IN \E bgm, by, su, tdt, loc, lin \in 1..n :
             /\ 1 < bgm /\ bgm < by /\ by < su /\ su < tdt /\ tdt < loc /\ loc < lin /\ lin + 1 < n
             /\ Tag(segs[1]) = <<"U", "N", "A">>
             /\ segs[bgm] = <<"B", "G", "M", "+", "3", "5", "1", "+", "R", "E", "C", "A", "D", "V", "0", "0", "1", "+", "9", "'">>
             /\ segs[by] = <<"N", "A", "D", "+", "B", "Y", "+", "5", "4", "1", "2", "3", "4", "5", "0", "0", "0", "1", "7", "6", ":", ":", "9", "'">>
             /\ segs[su] = <<"N", "A", "D", "+", "S", "U", "+", "4", "0", "1", "2", "3", "4", "5", "5", "0", "0", "0", "0", "4", ":", ":", "9", "'">>
             /\ Tag(segs[tdt]) = <<"T", "D", "T">>
             /\ Tag(segs[loc]) = <<"L", "O", "C">>
             /\ segs[lin] = <<"L", "I", "N", "+", "1", "+", "+", "E", "N", ":", "4", "0", "0", "0", "8", "6", "2", "1", "4", "1", "4", "0", "4", "'">>
             /\ segs[lin + 1] = <<"Q", "T", "Y", "+", "1", "1", "3", ":", "1", "2", "'">>
             /\ Tag(segs[n]) = <<"U", "N", "T">>
             /\ TrailerCount(segs[n]) = n

\* an item generate must accept: an EAN of 13 decimal digits and a quantity
\* whose text is the decimal text of a non-negative integer
WellFormedItem(item) ==
    /\ Len(item["ean"]) = EanLength
    /\ IsAsciiNumber(item["ean"])
    /\ IsAsciiNumber(str(item["qty"]))

\* C7: generate raises exactly when the list is empty or holds an item that
\* is not well formed, and returns a message otherwise.
C7_GenerateRejectsExactly ==
    (call.op = "generate") =>
        (ret.kind = "error" <=>
            (call.line_items = <<>> \/
             \E i \in 1..Len(call.line_items) : ~WellFormedItem(call.line_items[i])))

\* C8: _validate_ean accepts exactly the strings of 13 ASCII decimal digits
\* and returns an accepted string unchanged.
C8_EanExactlyThirteenAsciiDigits ==
    (call.op = "_validate_ean" /\ ret # NoValue) =>
        /\ ret.kind = "str" <=> (Len(call.ean) = EanLength /\ IsAsciiNumber(call.ean))
        /\ ret.kind = "str" => ret.value = call.ean

\* the arguments add_party and add_line_item reject: an EAN that fails the
\* 13-digit check of the validator, or a quantity that is not numeric
RejectedCall(c) ==
    \/ c.op = "add_party" /\ ~(Len(c.ean) = EanLength /\ isdigit(c.ean))
    \/ c.op = "add_line_item" /\
         (~(Len(c.item["ean"]) = EanLength /\ isdigit(c.item["ean"])) \/ ~isdigit(str(c.item["qty"])))

\* C9: add_party and add_line_item called with a rejected argument raise and
\* leave the builder's list exactly as it was.
C9_RejectedAddAppendsNothing ==
    [][(directs' # directs /\ RejectedCall(call'))
          => (ret'.kind = "error" /\ message' = message)]_vars

C9_Witness ==
    /\ call.op = "add_line_item" /\ call.item = ItemNegQty
    /\ ret.kind = "error"
    /\ gens > 0
    /\ Len(message) > 0

\* C10: the message a successful generate returns holds only segments of
\* that call: UNA first and once, UNT last and once, four line-item segments
\* per item, 10 + 4N segments in all, whatever was called before.
C10_NothingLeftOver ==
    (call.op = "generate" /\ Succeeded) =>
        \A segs \in {RenderedSegments} :
        LET n == Len(call.line_items)
        IN /\ Len(segs) = 10 + 4 * n
           /\ Tag(segs[1]) = <<"U", "N", "A">>
           /\ TagCount(segs, {<<"U", "N", "A">>}) = 1
           /\ Tag(segs[Len(segs)]) = <<"U", "N", "T">>
           /\ TagCount(segs, {<<"U", "N", "T">>}) = 1
           /\ TagCount(segs, {<<"L", "I", "N">>, <<"Q", "T", "Y">>, <<"P", "A", "C">>, <<"M", "E", "A">>}) = 4 * n

C10_Witness ==
    /\ call.op = "generate" /\ Succeeded
    /\ gens = MaxGen
    /\ directs = MaxDirect
    /\ TagCount(RenderedSegments, {<<"L", "I", "N">>}) = Len(call.line_items)

\* the segments of a returned value, and the fields of one segment
SegmentsOf(r) == IF r.kind = "list" THEN r.value ELSE Split(r.value, "\n")

Fields(seg) == Split(SubSeq(seg, 1, Len(seg) - 1), "+")

\* C11: in every message generate returns, UNH and UNT carry the same
\* message reference, and it is the token generated during that call from
\* the clock and the call's random suffix, never the constructor's empty
\* reference; a call whose suffix differs from the preceding call's yields a
\* different reference, within the same clock minute too.
C11_ReferencePerCall ==
    /\ [](call.op = "generate" /\ Succeeded
            => \A segs \in {RenderedSegments} :
               LET unh == Fields(segs[2])
                   unt == Fields(segs[Len(segs)])
               IN /\ Tag(segs[2]) = <<"U", "N", "H">>
                  /\ Tag(segs[Len(segs)]) = <<"U", "N", "T">>
                  /\ unh[2] = unt[3]
                  /\ unh[2] = message_ref
                  /\ unh[2] = _generate_message_reference(clock, call.k)
                  /\ message_ref # NewBuilder.message_ref)
    /\ [][(/\ gens' # gens
            /\ call'.op = "generate" /\ ret'.kind \in {"list", "text"}
            /\ call.op = "generate" /\ call.line_items # <<>>
            /\ call.k # call'.k)
              => message_ref' # message_ref]_vars

C11_Witness ==
    /\ call.op = "generate" /\ Succeeded
    /\ gens = MaxGen
    /\ call.k = NumSuffixes
    /\ Fields(RenderedSegments[2])[2] = message_ref
    /\ Fields(RenderedSegments[Len(RenderedSegments)])[3] = message_ref

\* the inverse reading of an escaped element: each release character is
\* removed and the character after it is kept
RECURSIVE Unrelease(_)
Unrelease(t) ==
    IF t = <<>> THEN <<>>
    ELSE IF t[1] = "?"
         THEN IF Len(t) = 1 THEN <<>> ELSE <<t[2]>> \o Unrelease(SubSeq(t, 3, Len(t)))
         ELSE <<t[1]>> \o Unrelease(Tail(t))

\* the text _segment returned between the tag's separator and the terminator
SegmentBody == SubSeq(ret.value, Len(call.tag) + 2, Len(ret.value) - 1)

\* C12: escaping an element and reading it back by removing each release
\* character and keeping the character after it gives the original element,
\* for every element over ? + : ' and ordinary characters; the release
\* characters written for ' and : are not escaped a second time.
C12_EscapeRoundTrip ==
    ret.kind = "str" =>
        LET ks == kept(call.elements)
            es == escaped(call.elements)
        IN /\ \A i \in 1..Len(ks) : Unrelease(es[i]) = str(ks[i])
           /\ Len(ks) = 1 => Unrelease(SegmentBody) = str(ks[1])
           /\ \A i \in 1..Len(ks) :
                 Len(es[i]) = Len(str(ks[i]))
                     + Cardinality({j \in 1..Len(str(ks[i])) : str(ks[i])[j] \in {"?", "'", ":"}})

C12_Witness ==
    /\ ret.kind = "str"
    /\ call.elements = <<PyStr(<<"?", "'">>)>>
    /\ SegmentBody = <<"?", "?", "?", "'">>
    /\ Unrelease(SegmentBody) = <<"?", "'">>

\* a segment's fields with field p left out
WithoutField(seg, p) == [i \in (1..Len(Fields(seg))) \ {p} |-> Fields(seg)[i]]

\* C13: two builders with the same configuration that generate from the
\* same line items return messages with the same number of segments, equal
\* segment by segment except for the reference field of UNH and of UNT and
\* for the DTM segment, whatever their clocks, random suffixes, return forms
\* and earlier calls were.
C13_SameInputSameMessage ==
    (/\ call.op = "generate" /\ Succeeded
     /\ peer.call.op = "generate" /\ peer.ret.kind \in {"list", "text"}
     /\ peer.call.line_items = call.line_items)
        => LET a == SegmentsOf(ret)
               b == SegmentsOf(peer.ret)
           IN /\ Len(a) = Len(b)
              /\ \A i \in 1..Len(a) :
                    /\ i <= Len(b)
                    /\ Tag(a[i]) = Tag(b[i])
                    /\ Tag(a[i]) = <<"U", "N", "H">> => WithoutField(a[i], 2) = WithoutField(b[i], 2)
                    /\ Tag(a[i]) = <<"U", "N", "T">> => WithoutField(a[i], 3) = WithoutField(b[i], 3)
                    /\ Tag(a[i]) \notin {<<"U", "N", "H">>, <<"U", "N", "T">>, <<"D", "T", "M">>} => a[i] = b[i]

C13_Witness ==
    /\ call.op = "generate" /\ Succeeded
    /\ peer.call.op = "generate" /\ peer.ret.kind \in {"list", "text"}
    /\ peer.call.line_items = call.line_items
    /\ gens = MaxGen
    /\ message_ref # peer.message_ref
    /\ SegmentsOf(ret)[4] # SegmentsOf(peer.ret)[4]
    /\ SegmentsOf(ret)[6] = SegmentsOf(peer.ret)[6]

\* C14: once a UNT segment is in the builder's list it is the last segment
\* of the list: no public operation appends a segment after it until a new
\* generate has cleared the list.
C14_TrailerStaysLast ==
    \A i \in 1..Len(message) : Tag(message[i]) = <<"U", "N", "T">> => i = Len(message)

\* the tags of the segments before the line items, in the order of generate
HeadTags == <<<<"U", "N", "A">>, <<"U", "N", "H">>, <<"B", "G", "M">>, <<"D", "T", "M">>, <<"R", "F", "F">>, <<"N", "A", "D">>, <<"N", "A", "D">>, <<"T", "D", "T">>, <<"L", "O", "C">>>>

ItemTags == <<<<"L", "I", "N">>, <<"Q", "T", "Y">>, <<"P", "A", "C">>, <<"M", "E", "A">>>>

\* C15: a message generate returns for N items has 10 + 4N segments whose
\* tags are UNA, UNH, BGM, DTM, RFF, NAD of the buyer, NAD of the supplier,
\* TDT, LOC, then LIN, QTY, PAC, MEA for each item in input order, then UNT.
C15_SegmentOrder ==
    (call.op = "generate" /\ Succeeded) =>
        \A segs \in {RenderedSegments} :
        LET n == Len(call.line_items)
        IN /\ n >= 1
           /\ Len(segs) = 10 + 4 * n
           /\ \A i \in 1..9 : Tag(segs[i]) = HeadTags[i]
           /\ SubSeq(segs[6], 1, 6) = <<"N", "A", "D", "+", "B", "Y">>
           /\ SubSeq(segs[7], 1, 6) = <<"N", "A", "D", "+", "S", "U">>
           /\ \A j \in 1..n :
                 /\ \A p \in 1..4 : Tag(segs[9 + 4 * (j - 1) + p]) = ItemTags[p]
                 /\ Fields(segs[9 + 4 * (j - 1) + 1])[2] = call.line_items[j]["line_no"]
           /\ Tag(segs[10 + 4 * n]) = <<"U", "N", "T">>

C15_Witness ==
    /\ call.op = "generate" /\ Succeeded
    /\ Len(call.line_items) = MaxItems
    /\ gens = MaxGen
    /\ Tag(RenderedSegments[9 + 4 * (MaxItems - 1) + 1]) = <<"L", "I", "N">>
    /\ Tag(RenderedSegments[10 + 4 * MaxItems]) = <<"U", "N", "T">>

\* what generate(line_items) returns when nothing else runs on the builder
Alone(t) ==
    generate_return(generate(<<>>, <<>>, threads[t].line_items, clock, threads[t].k).message, FALSE)

\* C16: two generate calls running concurrently on two builders do not
\* affect each other: each returns what it returns when it runs alone.  On
\* one builder two concurrent calls can interleave so that a call returns a
\* message that is not its own (C16_Witness).
C16_SeparateBuildersIsolated ==
    threads # <<>> =>
        \A t \in Threads :
            (threads[1].on # threads[2].on /\ threads[t].pc = "done")
                => threads[t].result = Alone(t)

C16_Witness ==
    /\ threads # <<>>
    /\ threads[1].on = threads[2].on
    /\ \A t \in Threads : threads[t].pc = "done"
    /\ \E t \in Threads :
         LET segs == SegmentsOf(threads[t].result)
         IN /\ threads[t].result # Alone(t)
            /\ Len(segs) > 2
            /\ Tag(segs[2]) = <<"U", "N", "H">>
            /\ Tag(segs[Len(segs)]) = <<"U", "N", "T">>
            /\ TagCount(segs, {<<"U", "N", "A">>}) > 1
            /\ Fields(segs[2])[2] # Fields(segs[Len(segs)])[3]

\* C17: a message generate returned, as joined text or as list of segments,
\* still holds exactly the segments it held at its return after the next
\* operation on the builder, whichever it is.
C17_ReturnedValueStable ==
    [][Succeeded => referent(ret, message') = ret.value]_vars

\* C18: in rf4.py and readdoc_3.py the message a second generate on the same
\* instance returns holds the second call's segments only, one UNA and one
\* UNT, and its UNT count is its number of segments.
C18_SecondCallStartsAfresh ==
    (call.op = "generate" /\ gens >= 2 /\ ret.kind = "text") =>
        LET segs == RenderedSegments
        IN /\ TagCount(segs, {<<"U", "N", "A">>}) = 1
           /\ TagCount(segs, {<<"U", "N", "T">>}) = 1
           /\ TrailerCount(segs[Len(segs)]) = Len(segs)

\* C19: in recadv_term_print.py the count of the UNT segment is the number
\* of segments of the returned message, the UNA and the UNT itself counted,
\* for every list of line items.
C19_PrintTrailerCountsItself ==
    (call.op = "generate" /\ ret.kind = "text") =>
        TrailerCount(RenderedSegments[Len(RenderedSegments)]) = Len(RenderedSegments)

\* C20: generate_and_save makes sure the output directory exists when it
\* saves: a call whose message is generated and whose file operations all
\* work returns the path of the file, and the directory exists afterwards,
\* also when the directory was removed after the builder was constructed.
C20_SaveCreatesDirectory ==
    [][(/\ gens' # gens
        /\ call'.op = "generate_and_save"
        /\ call'.io = "ok"
        /\ Len(message') > 0
        /\ Tag(message'[Len(message')]) = <<"U", "N", "T">>)
          => (/\ ret'.kind = "path"
              /\ dir_exists'
              /\ \E f \in files' : f.name = call'.filename)]_vars

====
